---- MODULE Spec2Model ----
(***************************************************************************)
(* Streaming transcription session of speech-to-text-service:              *)
(*   api/services/streaming_service.py   (StreamingSession, StreamingService)*)
(*   api/controllers/streaming_controller.py   (ws_transcribe)             *)
(*                                                                         *)
(* One WebSocket connection and its session.  Lengths and offsets are in   *)
(* bytes, at the program's own sizes.  The PCM buffer is kept run-length   *)
(* encoded: a sequence of runs [n |-> bytes, v |-> sample value], so that   *)
(* 80000-byte windows stay small states.  A payload is n bytes of 16-bit   *)
(* samples that all have the value v; a payload may end in the middle of a *)
(* sample, and the next payload then starts with that sample's second byte.*)
(***************************************************************************)
EXTENDS Integers, Sequences, FiniteSets, TLC

(* ---------------- program constants ---------------- *)
SAMPLE_RATE == 16000
SAMPLE_WIDTH == 2
\* CHUNK_SEC = 2.5, MIN_CHUNK_SEC = 1.0, OVERLAP_SEC = 0.5, in tenths of a second
CHUNK_SEC_x10 == 25
MIN_CHUNK_SEC_x10 == 10
OVERLAP_SEC_x10 == 5
\* SILENCE_RMS = 0.005 = 1 / SILENCE_RMS_INV
SILENCE_RMS_INV == 200
\* _pcm16_to_float32 divides by 32768.0
FULL_SCALE == 32768
VAD_FRAME_MS == 20
VAD_WINDOW_MS == 400
\* VAD_SPEECH_RATIO_THRESHOLD = 0.35, VAD_SPEECH_RATIO_THRESHOLD_NO_VAD = 1.1, in percent
VAD_SPEECH_RATIO_THRESHOLD_PCT == 35
VAD_SPEECH_RATIO_THRESHOLD_NO_VAD_PCT == 110
\* stdout.read(4096)
READ_SIZE == 4096
CLOSE_PROTOCOL_ERROR == 1002
CLOSE_INTERNAL_ERROR == 1011

(* ---------------- bounds of the model ---------------- *)
\* binary frames of PCM one connection receives
MaxFrames == 3
\* binary frames of PCM a connection that has sent nothing but full chunks of silence
\* receives beyond MaxFrames
MaxSilentExtra == 2
\* binary frames of encoded audio one connection receives
MaxEncoded == 2
\* reads of decoder output the background reader performs
MaxReads == 8

(* ---------------- derived sizes (StreamingSession.__init__) ---------------- *)
bytes_per_sec == SAMPLE_RATE * SAMPLE_WIDTH
chunk_bytes == (CHUNK_SEC_x10 * bytes_per_sec) \div 10
min_chunk_bytes == (MIN_CHUNK_SEC_x10 * bytes_per_sec) \div 10
overlap_bytes == (OVERLAP_SEC_x10 * bytes_per_sec) \div 10

Min(a, b) == IF a < b THEN a ELSE b
Max(a, b) == IF a > b THEN a ELSE b

(* ---------------- inputs ---------------- *)
\* sample values a payload is made of: digital silence and half of full scale
LoudSample == FULL_SCALE \div 2
SampleValues == {0, LoudSample}
\* byte lengths of a binary frame: a torn sample, the minimum chunk, what the minimum
\* chunk lacks of a full chunk, a full chunk
FrameSizes == {1, min_chunk_bytes, chunk_bytes - min_chunk_bytes, chunk_bytes}
LargestFrame == chunk_bytes
\* payloads of a binary frame, as <<byte length, sample value>>: silence comes in
\* minimum and full chunks
PcmFrames ==
    { f \in FrameSizes \X SampleValues :
          f[2] = 0 => f[1] \in {min_chunk_bytes, chunk_bytes} }
\* byte lengths one read of the decoder's output returns (at most READ_SIZE)
ReadSizes == {READ_SIZE}
\* sample values the next read can return: decoded audio is a silent lead-in of any
\* length followed by sound
DecodedValues(b) == IF \E i \in 1..Len(b) : b[i].v # 0 THEN {LoudSample} ELSE SampleValues
\* format descriptors of an accepted handshake: AudioFormat(fmt, rate)
AudioFormat(format_type, rate) ==
    [format_type |-> format_type, sample_rate |-> IF rate = 0 THEN SAMPLE_RATE ELSE rate]
\* needs_conversion decided by the encoding alone
needs_conversion_ignores_rate(fmt) == ~(fmt.format_type = "s16le")
needs_conversion(fmt) == ~(fmt.format_type = "s16le" /\ fmt.sample_rate = SAMPLE_RATE)

(* ---------------- the PCM buffer (a bytearray), run-length encoded ---------------- *)
RECURSIVE BufLen(_)
BufLen(b) == IF b = <<>> THEN 0 ELSE b[1].n + BufLen(Tail(b))

AddRun(b, n, v) ==
    IF n = 0 THEN b
    ELSE IF b # <<>> /\ b[Len(b)].v = v
         THEN [b EXCEPT ![Len(b)].n = @ + n]
         ELSE Append(b, [n |-> n, v |-> v])

\* pcm_buffer.extend(data), data being n bytes of samples of value v; when the buffer
\* ends inside a sample the first byte of data is that sample's second byte
Extend(b, n, v) ==
    IF n = 0 THEN b
    ELSE IF BufLen(b) % SAMPLE_WIDTH = 1
         THEN AddRun(AddRun(b, 1, b[Len(b)].v), n - 1, v)
         ELSE AddRun(b, n, v)

\* del pcm_buffer[:k]
RECURSIVE DelFront(_, _)
DelFront(b, k) ==
    IF k <= 0 \/ b = <<>> THEN b
    ELSE IF b[1].n <= k THEN DelFront(Tail(b), k - b[1].n)
         ELSE <<[b[1] EXCEPT !.n = @ - k]>> \o Tail(b)

\* number of bytes of pcm_buffer[lo:hi] that belong to samples of non-zero value
RECURSIVE LoudBytes(_, _, _)
LoudBytes(b, lo, hi) ==
    IF b = <<>> \/ hi <= 0 THEN 0
    ELSE LET n == b[1].n
             ov == Max(0, Min(n, hi) - Max(0, lo))
         IN  (IF b[1].v # 0 THEN ov ELSE 0) + LoudBytes(Tail(b), lo - n, hi - n)


(* ---------------- StreamingSession: pure parts ---------------- *)
\* _pcm16_to_float32: np.frombuffer(pcm, dtype=np.int16) takes whole samples only and
\* raises ValueError on a byte string of odd length
pcm16_decodable(nbytes) == nbytes % SAMPLE_WIDTH = 0

\* rms < SILENCE_RMS for the window pcm_buffer[start : start+take] (take even):
\* rms^2 = loud * (LoudSample/FULL_SCALE)^2 / samples, compared with 1/SILENCE_RMS_INV^2
\* after dividing both sides by LoudSample^2 (the products stay below 2^31).  The code
\* compares in floating point; no reachable window lies exactly on the threshold
\* (loud * 40000 = 4 * samples), the one place where rounding could decide
rms_silent(b, start, take) ==
    LET samples == take \div SAMPLE_WIDTH
        loud    == LoudBytes(b, start, start + take) \div SAMPLE_WIDTH
        amp_inv == FULL_SCALE \div LoudSample
    IN  loud * (SILENCE_RMS_INV * SILENCE_RMS_INV) < (amp_inv * amp_inv) * samples

\* variant: a trailing frame shorter than bytes_per_frame is evaluated as well
vad_frames_counts_partial(buf_len) ==
    LET tail_len        == (VAD_WINDOW_MS * bytes_per_sec) \div 1000
        tail            == buf_len - Max(0, buf_len - tail_len)
        bytes_per_frame == ((SAMPLE_RATE * VAD_FRAME_MS) \div 1000) * SAMPLE_WIDTH
    IN  IF tail = 0 \/ bytes_per_frame = 0 THEN 0
        ELSE (tail + bytes_per_frame - 1) \div bytes_per_frame

\* get_vad_speech_ratio: the number of frames its loop evaluates (total).  The loop
\* runs over max(1, len(tail) // bytes_per_frame) slices and leaves at the first
\* slice shorter than a frame; slice lengths never grow, so the slices before the
\* break are the slices of full length
vad_frames(buf_len) ==
    LET tail_len        == (VAD_WINDOW_MS * bytes_per_sec) \div 1000
        tail            == buf_len - Max(0, buf_len - tail_len)
        bytes_per_frame == ((SAMPLE_RATE * VAD_FRAME_MS) \div 1000) * SAMPLE_WIDTH
        n_frames        == IF bytes_per_frame = 0 THEN 0
                           ELSE Max(1, tail \div bytes_per_frame)
        frame_len(i)    == Min(tail, (i + 1) * bytes_per_frame)
                               - Min(tail, i * bytes_per_frame)
    IN  IF tail = 0 \/ bytes_per_frame = 0 THEN 0
        ELSE Cardinality({ i \in 0..(n_frames - 1) : frame_len(i) >= bytes_per_frame })

\* what vad.is_speech does with one frame: True, False, or an exception
FrameOutcomes == {"speech", "silence", "raises"}

\* the body of the frame loop over the classifier's outcomes, one per frame:
\* try: if vad.is_speech(...): speech += 1 / except Exception: pass / total += 1
RECURSIVE count_speech_frames(_)
count_speech_frames(outcomes) ==
    IF outcomes = << >> THEN [speech |-> 0, total |-> 0, raises |-> FALSE]
    ELSE LET rest == count_speech_frames(Tail(outcomes))
         IN  [speech |-> rest.speech + (IF Head(outcomes) = "speech" THEN 1 ELSE 0),
              total  |-> rest.total + 1,
              raises |-> rest.raises]

(* ---------------- StreamingSession.cleanup ---------------- *)
\* what each call of cleanup does when it fails: cancel(), the await of the reader
\* task, kill() and the await of wait(), each returning or raising
CleanupFailures ==
    [cancel : {"none", "Exception"}, await : {"none", "CancelledError", "Exception"},
     kill : {"none", "Exception"}, wait : {"none", "Exception"}]
\* the failures asyncio itself produces for a real task and a live child process
RuntimeFailures ==
    { f \in CleanupFailures : f.cancel = "none" /\ f.await # "Exception"
                              /\ f.kill = "none" /\ f.wait = "none" }
\* the except clauses of the two blocks
ReaderCaught == {"CancelledError", "Exception"}
ProcessCaught == {"Exception"}

\* cleanup with kill() and wait() outside any try
cleanup_kill_unguarded(reader, process, fail) ==
    LET reader_block  == reader # "none"
        raised1       == IF ~reader_block THEN "none"
                         ELSE IF fail.cancel # "none" THEN fail.cancel ELSE fail.await
        cancelled     == reader_block /\ fail.cancel = "none"
        escaped1      == raised1 # "none" /\ raised1 \notin ReaderCaught
        process_block == ~escaped1 /\ process = "running"
        raised2       == IF ~process_block THEN "none"
                         ELSE IF fail.kill # "none" THEN fail.kill ELSE fail.wait
        killed        == process_block /\ fail.kill = "none"
    IN  [reader_task    |-> IF cancelled /\ reader = "running" THEN "cancelled" ELSE reader,
         ffmpeg_process |-> IF killed THEN "exited" ELSE process,
         raises         |-> escaped1 \/ raised2 # "none"]

\* cleanup(): the reader task and the process afterwards, and whether an exception
\* leaves the call.  A cancel() or kill() that raises has no effect on its resource
cleanup(reader, process, fail) ==
    LET reader_block  == reader # "none"
        raised1       == IF ~reader_block THEN "none"
                         ELSE IF fail.cancel # "none" THEN fail.cancel ELSE fail.await
        cancelled     == reader_block /\ fail.cancel = "none"
        escaped1      == raised1 # "none" /\ raised1 \notin ReaderCaught
        process_block == ~escaped1 /\ process = "running"
        raised2       == IF ~process_block THEN "none"
                         ELSE IF fail.kill # "none" THEN fail.kill ELSE fail.wait
        killed        == process_block /\ fail.kill = "none"
        escaped2      == raised2 # "none" /\ raised2 \notin ProcessCaught
    IN  [reader_task    |-> IF cancelled /\ reader = "running" THEN "cancelled" ELSE reader,
         ffmpeg_process |-> IF killed THEN "exited" ELSE process,
         raises         |-> escaped1 \/ escaped2]

\* get_vad_speech_ratio as the fraction num/den; speech is the number of frames the
\* frame classifier reports as speech
get_vad_speech_ratio(buf_len, speech) ==
    LET total == vad_frames(buf_len)
    IN  IF total = 0 THEN [num |-> 0, den |-> 1]
        ELSE [num |-> Min(speech, total), den |-> total]

\* variant: the pause heuristic is consulted before the full-chunk rule
should_transcribe_vad_before_cap(buf_len, t_len, force, real_vad, speech) ==
    LET new_audio_len == buf_len - t_len
        ratio     == IF real_vad THEN get_vad_speech_ratio(buf_len, speech)
                     ELSE [num |-> 0, den |-> 1]
        threshold == IF real_vad THEN VAD_SPEECH_RATIO_THRESHOLD_PCT
                     ELSE VAD_SPEECH_RATIO_THRESHOLD_NO_VAD_PCT
    IN  IF force THEN new_audio_len > 0
        ELSE IF new_audio_len < min_chunk_bytes THEN FALSE
        ELSE ratio.num * 100 < threshold * ratio.den

\* variant: the minimum-chunk rule is missing
should_transcribe_without_minimum(buf_len, t_len, force, real_vad, speech) ==
    LET new_audio_len == buf_len - t_len
        ratio     == IF real_vad THEN get_vad_speech_ratio(buf_len, speech)
                     ELSE [num |-> 0, den |-> 1]
        threshold == IF real_vad THEN VAD_SPEECH_RATIO_THRESHOLD_PCT
                     ELSE VAD_SPEECH_RATIO_THRESHOLD_NO_VAD_PCT
    IN  IF force THEN new_audio_len > 0
        ELSE IF new_audio_len >= chunk_bytes THEN TRUE
        ELSE ratio.num * 100 < threshold * ratio.den

\* should_transcribe with the minimum-size rule applied before force is looked at
should_transcribe_minimum_before_force(buf_len, t_len, force, real_vad, speech) ==
    LET new_audio_len == buf_len - t_len
    IN  IF new_audio_len < min_chunk_bytes THEN FALSE
        ELSE IF force THEN new_audio_len > 0
        ELSE IF new_audio_len >= chunk_bytes THEN TRUE
        ELSE real_vad => get_vad_speech_ratio(buf_len, speech).num * 100
                             < VAD_SPEECH_RATIO_THRESHOLD_PCT
                                 * get_vad_speech_ratio(buf_len, speech).den

\* should_transcribe with the full-chunk rule firing only above chunk_bytes
should_transcribe_full_chunk_exclusive(buf_len, t_len, force, real_vad, speech) ==
    LET new_audio_len == buf_len - t_len
        ratio     == IF real_vad THEN get_vad_speech_ratio(buf_len, speech)
                     ELSE [num |-> 0, den |-> 1]
        threshold == IF real_vad THEN VAD_SPEECH_RATIO_THRESHOLD_PCT
                     ELSE VAD_SPEECH_RATIO_THRESHOLD_NO_VAD_PCT
    IN  IF force THEN new_audio_len > 0
        ELSE IF new_audio_len < min_chunk_bytes THEN FALSE
        ELSE IF new_audio_len > chunk_bytes THEN TRUE
        ELSE ratio.num * 100 < threshold * ratio.den

\* should_transcribe(force)
should_transcribe(buf_len, t_len, force, real_vad, speech) ==
    LET new_audio_len == buf_len - t_len
        ratio     == IF real_vad THEN get_vad_speech_ratio(buf_len, speech)
                     ELSE [num |-> 0, den |-> 1]
        threshold == IF real_vad THEN VAD_SPEECH_RATIO_THRESHOLD_PCT
                     ELSE VAD_SPEECH_RATIO_THRESHOLD_NO_VAD_PCT
    IN  IF force THEN new_audio_len > 0
        ELSE IF new_audio_len < min_chunk_bytes THEN FALSE
        ELSE IF new_audio_len >= chunk_bytes THEN TRUE
        ELSE ratio.num * 100 < threshold * ratio.den

\* variant: the offset advances by a full chunk less the overlap, whatever was taken
get_audio_chunk_full_advance(b, t_len) ==
    LET available == BufLen(b) - t_len
        take      == Min(chunk_bytes, available)
        none      == [ret |-> "none", transcribed_len |-> t_len, take |-> 0]
    IN  IF available <= 0 THEN none
        ELSE IF ~pcm16_decodable(take)
             THEN [ret |-> "error", transcribed_len |-> t_len, take |-> 0]
        ELSE IF rms_silent(b, t_len, take)
             THEN [ret |-> "silent", transcribed_len |-> t_len, take |-> 0]
        ELSE [ret |-> "audio", transcribed_len |-> t_len + (chunk_bytes - overlap_bytes),
              take |-> take]

\* variant: the offset advances by the whole window, leaving no look-back
get_audio_chunk_no_overlap(b, t_len) ==
    LET available == BufLen(b) - t_len
        take      == Min(chunk_bytes, available)
        none      == [ret |-> "none", transcribed_len |-> t_len, take |-> 0]
    IN  IF available <= 0 THEN none
        ELSE IF ~pcm16_decodable(take)
             THEN [ret |-> "error", transcribed_len |-> t_len, take |-> 0]
        ELSE IF rms_silent(b, t_len, take)
             THEN [ret |-> "silent", transcribed_len |-> t_len, take |-> 0]
        ELSE [ret |-> "audio", transcribed_len |-> t_len + take, take |-> take]

\* variant: the offset advances before the silence gate returns
get_audio_chunk_advance_on_silence(b, t_len) ==
    LET available == BufLen(b) - t_len
        take      == Min(chunk_bytes, available)
        advance   == Max(0, take - overlap_bytes)
        none      == [ret |-> "none", transcribed_len |-> t_len, take |-> 0]
    IN  IF available <= 0 THEN none
        ELSE IF ~pcm16_decodable(take)
             THEN [ret |-> "error", transcribed_len |-> t_len, take |-> 0]
        ELSE IF rms_silent(b, t_len, take)
             THEN [ret |-> "silent", transcribed_len |-> t_len + advance, take |-> 0]
        ELSE [ret |-> "audio", transcribed_len |-> t_len + advance, take |-> take]

\* get_audio_chunk_for_transcription: what it returns ("audio"; "none" or "silent" for
\* None; "error" for the ValueError of the sample conversion), the offset afterwards
\* and the length of the window taken
get_audio_chunk_for_transcription(b, t_len) ==
    LET chunk_start == t_len
        available   == BufLen(b) - chunk_start
        take        == Min(chunk_bytes, available)
        advance     == Max(0, take - overlap_bytes)
        none        == [ret |-> "none", transcribed_len |-> t_len, take |-> 0]
    IN  IF available <= 0 THEN none
        ELSE IF ~pcm16_decodable(take)
             THEN [ret |-> "error", transcribed_len |-> t_len, take |-> 0]
        ELSE IF take \div SAMPLE_WIDTH = 0 THEN none
        ELSE IF rms_silent(b, chunk_start, take)
             THEN [ret |-> "silent", transcribed_len |-> t_len, take |-> 0]
        ELSE [ret |-> "audio", transcribed_len |-> t_len + advance, take |-> take]

\* variant: one chunk of history is kept instead of two
trim_buffer_keeps_one_chunk(b, t_len) ==
    LET keep_after == Max(0, t_len - chunk_bytes)
    IN  IF keep_after > 0
        THEN [pcm_buffer |-> DelFront(b, keep_after), transcribed_len |-> t_len - keep_after]
        ELSE [pcm_buffer |-> b, transcribed_len |-> t_len]

\* variant: the front of the buffer is deleted and the offset is left as it was
trim_buffer_offset_kept(b, t_len) ==
    LET keep_after == Max(0, t_len - (2 * chunk_bytes))
    IN  [pcm_buffer |-> DelFront(b, keep_after), transcribed_len |-> t_len]

\* variant: the offset is lowered and the buffer is left as it was
trim_buffer_offset_only(b, t_len) ==
    LET keep_after == Max(0, t_len - (2 * chunk_bytes))
    IN  [pcm_buffer |-> b, transcribed_len |-> t_len - keep_after]

\* variant: nothing is ever trimmed
trim_buffer_never(b, t_len) == [pcm_buffer |-> b, transcribed_len |-> t_len]

\* trim_buffer: the buffer and the offset afterwards
trim_buffer(b, t_len) ==
    LET keep_after == Max(0, t_len - (2 * chunk_bytes))
    IN  IF keep_after > 0
        THEN [pcm_buffer |-> DelFront(b, keep_after), transcribed_len |-> t_len - keep_after]
        ELSE [pcm_buffer |-> b, transcribed_len |-> t_len]


(* ---------------- one-shot file/URL path: TranscriptionService ---------------- *)
\* one-shot requests served in one behaviour
MaxRequests == 2

\* settings.max_file_mb, settings.max_duration_sec
max_file_mb == 100
max_duration_sec == 3600
\* validate_file_size: 1024 * 1024 bytes to the megabyte
BYTES_PER_MB == 1048576

\* TranscriptionService.SUPPORTED_UPLOAD_FORMATS
SUPPORTED_UPLOAD_FORMATS == {"wav", "mp3", "m4a", "ogg", "webm", "flac"}

\* sizes of the uploaded or downloaded content, in bytes
ContentSizes == {0, max_file_mb * BYTES_PER_MB, max_file_mb * BYTES_PER_MB + 1}
\* what ffprobe reports as format_name, split at the commas; empty when ffprobe fails
ProbeNames == { << >>, <<"wav">>, <<"mov", "mp4", "m4a">>, <<"matroska", "webm">>, <<"avi">> }
\* the extension of the upload's file name or of the URL path, "" when there is none
NameExtensions == {"", "mp3", "txt"}
\* durations ffprobe reports for the normalized WAV, in seconds
Durations == {1, max_duration_sec, max_duration_sec + 1}

\* validate_file_size: the status of the HTTPException it raises, 0 if it returns
validate_file_size(size_bytes) ==
    IF size_bytes > max_file_mb * BYTES_PER_MB THEN 413 ELSE 0

\* validate_duration: the status of the HTTPException it raises, 0 if it returns
validate_duration(duration) ==
    IF duration > max_duration_sec THEN 413 ELSE 0

\* _map_probe_name on the lower-case names _probe_audio_format returns
map_probe_name(name) ==
    IF name \in {"mov", "mp4", "m4a"} THEN "m4a"
    ELSE IF name = "matroska" THEN "webm"
    ELSE name

\* validate_audio_format: the first supported probe name, else the first supported
\* extension among the hints (temp path, original name), else HTTPException(400)
validate_audio_format(candidates, hints) ==
    LET probed == { i \in 1..Len(candidates) :
                      map_probe_name(candidates[i]) \in SUPPORTED_UPLOAD_FORMATS }
        hinted == { i \in 1..Len(hints) : hints[i] \in SUPPORTED_UPLOAD_FORMATS }
        first(S) == CHOOSE i \in S : \A j \in S : i <= j
    IN  IF probed # {} THEN map_probe_name(candidates[first(probed)])
        ELSE IF hinted # {} THEN hints[first(hinted)]
        ELSE "HTTPException"

\* normalize_to_wav_16k_mono: how far it gets.  ensure_ffmpeg raises before the WAV
\* temp file exists; ffmpeg, ffprobe and float() raise after mkstemp created it
NormalizeOutcomes == {"no_ffmpeg", "ffmpeg_failed", "ffprobe_failed", "ok"}
normalize_to_wav_16k_mono(outcome) ==
    [wav_created |-> outcome # "no_ffmpeg", raises |-> outcome # "ok"]

\* _cleanup_temp_file(path): os.remove inside try / except Exception: pass
cleanup_temp_file(files, path, remove_raises) ==
    [files |-> IF remove_raises THEN files ELSE files \ {path}, raises |-> FALSE]


(* ---------------- state ---------------- *)
VARIABLES
    pc,               \* where ws_transcribe is suspended
    forced,           \* the cycle in progress is the forced final one (force=True)
    has_real_vad,     \* _HAS_REAL_VAD: webrtcvad was importable
    session,          \* a StreamingSession was created
    audio_format,     \* session.audio_format
    pcm_buffer,       \* session.pcm_buffer
    transcribed_len,  \* session.transcribed_len
    ffmpeg_process,   \* session.ffmpeg_process: "none", "running", "exited"
    stdin_closing,    \* ffmpeg_process.stdin.is_closing()
    written,          \* some payload was written to the decoder's stdin
    reader_task,      \* session.reader_task: "none", "running", "done", "cancelled"
    result,           \* what process_audio_chunk returned: "none" or "delta"
    close_code,       \* code of websocket.close(), 0 while not called
    frames,           \* binary frames received so far
    reads,            \* reads of decoder output so far
    trimmed,          \* history: bytes trim_buffer has deleted from the front so far
    windows,          \* history: the windows extracted, as <<first, end>> stream positions
    last_cycle,       \* history: how the last readiness/extraction cycle ended
    returned,         \* history: recognition calls that have returned or raised
    delta_append,     \* the "append" text of the last delta transcribe_chunk built
    first_frame,      \* history: what kind of first frame the connection received
    error_text,       \* str(e) of the ValueError parse_handshake raised, "" if none
    close_reason,     \* reason of websocket.close(), "" while not called
    close_failed,     \* websocket.close() raised
    ignored_frame,    \* the frame the receive loop has just skipped with continue
    sent,             \* the JSON messages sent so far, by their "type"
    stop_at,          \* history: Len(sent) when "stop"/"close" was received, -1 before
    cleanups,         \* history: calls of session.cleanup()
    fault,            \* history: what took the handler off the normal path, "none" if nothing
    request,          \* the one-shot request being served: "none", "file", "url"
    request_pc,       \* where transcribe_from_file / transcribe_from_url is
    temp_files,       \* the temp files on disk, as <<request number, "input" or "wav">>
    served,           \* one-shot requests completed so far
    status,           \* HTTP status decided for the request being served, 0 while undecided
    remove_failed     \* requests whose os.remove raised in _cleanup_temp_file

stream_vars == << pc, forced, has_real_vad, session, audio_format, pcm_buffer, transcribed_len,
           ffmpeg_process, stdin_closing, written, reader_task, result, close_code,
           frames, reads, trimmed, windows, last_cycle, returned, delta_append, first_frame, error_text,
           close_reason, close_failed, ignored_frame, sent, stop_at, cleanups, fault >>

oneshot_vars == << request, request_pc, temp_files, served, status, remove_failed >>
\* what no step of a streaming session changes
process_vars == << has_real_vad, oneshot_vars >>

vars == << stream_vars, oneshot_vars >>

session_vars == << pcm_buffer, transcribed_len >>
decoder_vars == << ffmpeg_process, stdin_closing, written, reader_task >>
history_vars == << trimmed, windows, last_cycle, returned, delta_append >>
reply_vars == << first_frame, error_text, close_reason, close_failed, sent, stop_at,
                cleanups >>
wire_vars == << reply_vars, ignored_frame >>

NoFormat == [format_type |-> "none", sample_rate |-> 0]
NoFrame == [kind |-> "none", text |-> "", len |-> 0]

Init ==
    /\ request = "none"
    /\ request_pc = "idle"
    /\ temp_files = {}
    /\ served = 0
    /\ status = 0
    /\ remove_failed = {}
    /\ pc = "handshake"
    /\ forced = FALSE
    /\ has_real_vad \in BOOLEAN
    /\ session = FALSE
    /\ audio_format = NoFormat
    /\ pcm_buffer = <<>>
    /\ transcribed_len = 0
    /\ ffmpeg_process = "none"
    /\ stdin_closing = FALSE
    /\ written = FALSE
    /\ reader_task = "none"
    /\ result = "none"
    /\ close_code = 0
    /\ frames = 0
    /\ reads = 0
    /\ trimmed = 0
    /\ windows = <<>>
    /\ last_cycle = "none"
    /\ returned = 0
    /\ delta_append = ""
    /\ first_frame = "none"
    /\ error_text = ""
    /\ close_reason = ""
    /\ close_failed = FALSE
    /\ ignored_frame = NoFrame
    /\ sent = <<>>
    /\ stop_at = -1
    /\ cleanups = 0
    /\ fault = "none"

(* ---------------- StreamingService.parse_handshake ---------------- *)
SUPPORTED_STREAM_FORMATS == {"wav", "mp3", "m4a", "ogg", "webm", "flac"}
RAW_STREAM_FORMATS == {"s16le", "f32le"}
\* an alias table without entries
STREAM_FORMAT_ALIASES_empty(fmt_raw) == fmt_raw
\* STREAM_FORMAT_ALIASES.get(fmt_raw, fmt_raw)
STREAM_FORMAT_ALIASES(fmt_raw) == IF fmt_raw = "mp4" THEN "m4a" ELSE fmt_raw
\* allowed = {"tiny", "base", "small", "medium"}
AllowedModelSizes == {"tiny", "base", "small", "medium"}

\* a key the JSON object does not have, and the JSON value null
Absent == "(absent)"
Null == "(null)"

\* str.lower(), on the spellings the first frames below use
lower(s) == CASE s = "S16LE" -> "s16le" [] s = "Tiny" -> "tiny" [] OTHER -> s

\* int(x) for the rate values below; a text that is no numeral raises ValueError,
\* null raises TypeError
NumeralRates == {"16000", "8000"}
int(x) == CASE x = "16000" -> 16000 [] x = "8000" -> 8000 [] OTHER -> 0

\* first frames: text that is not JSON, a JSON array, and JSON objects
MessageTypes == {Absent, "start", "stop"}
MessageFormats == {Absent, "s16le", "S16LE", "mp4", "aac"}
MessageRates == {Absent, "16000", "abc", Null}
\* a source rate other than the canonical one, announced for raw PCM
RawSourceRates == {"8000"}
\* a raw encoding other than the canonical one, named without a source rate
RawUndeclared == {"f32le"}
MessageModelSizes == {Absent, "Tiny", "huge"}
QueryModelSizes == {Absent, "base", "huge"}
JsonObject(t, f, r, m) ==
    [json |-> "object", type |-> t, format |-> f, rate |-> r, model_size |-> m]
HandshakeMessages ==
    { [json |-> j, type |-> Absent, format |-> Absent, rate |-> Absent,
       model_size |-> Absent] : j \in {"malformed", "array"} }
    \cup { JsonObject(t, f, r, m) : t \in MessageTypes, f \in MessageFormats,
                                    r \in MessageRates, m \in MessageModelSizes }
    \cup { JsonObject("start", "s16le", r, Absent) : r \in RawSourceRates }
    \cup { JsonObject("start", f, Absent, Absent) : f \in RawUndeclared }

\* str(e) of json.JSONDecodeError for a text that does not start a JSON value
JSONDecodeErrorText == "Expecting value: line 1 column 1 (char 0)"

Raise(exception, text) ==
    [raises |-> exception, text |-> text, audio_format |-> NoFormat, model_size |-> Absent]

\* parse_handshake with the query-parameter fallback never validated
parse_handshake_fallback_unchecked(message, fallback_model_size) ==
    LET data      == message
        fmt_raw   == lower(IF data.format = Absent THEN "webm" ELSE data.format)
        fmt       == STREAM_FORMAT_ALIASES(fmt_raw)
        model_raw == IF data.model_size # Absent THEN data.model_size
                     ELSE fallback_model_size
        model_size == IF model_raw = Absent THEN Absent ELSE lower(model_raw)
    IN  IF data.json = "malformed"
        THEN Raise("ValueError", "Invalid handshake: " \o JSONDecodeErrorText)
        ELSE IF data.json # "object"
        THEN Raise("AttributeError", "'list' object has no attribute 'get'")
        ELSE IF data.type # "start"
        THEN Raise("ValueError", "Invalid handshake: Invalid handshake type")
        ELSE IF fmt \notin SUPPORTED_STREAM_FORMATS \cup RAW_STREAM_FORMATS
        THEN Raise("ValueError", "Invalid handshake: Unsupported format '" \o fmt_raw
                       \o "'. Supported formats: flac, m4a, mp3, ogg, wav, webm")
        ELSE IF data.rate = Null
        THEN Raise("TypeError", "int() argument must be a string or a number")
        ELSE IF data.rate # Absent /\ data.rate \notin NumeralRates
        THEN Raise("ValueError", "Invalid handshake: invalid literal for int() "
                       \o "with base 10: '" \o data.rate \o "'")
        ELSE IF data.model_size # Absent /\ model_size \notin AllowedModelSizes
        THEN Raise("ValueError", "Invalid handshake: Invalid model size: " \o model_size)
        ELSE [raises |-> "none", text |-> "",
              audio_format |-> AudioFormat(fmt, IF data.rate = Absent THEN 0
                                                ELSE int(data.rate)),
              model_size |-> model_size]

\* parse_handshake(message, fallback_model_size): the (AudioFormat, model size) it
\* returns or the exception it raises; the checks run in the order of the code
parse_handshake(message, fallback_model_size) ==
    LET data      == message
        fmt_raw   == lower(IF data.format = Absent THEN "webm" ELSE data.format)
        fmt       == STREAM_FORMAT_ALIASES(fmt_raw)
        model_raw == IF data.model_size # Absent THEN data.model_size
                     ELSE fallback_model_size
        model_size == IF model_raw = Absent THEN Absent ELSE lower(model_raw)
    IN  IF data.json = "malformed"
        THEN Raise("ValueError", "Invalid handshake: " \o JSONDecodeErrorText)
        ELSE IF data.json # "object"
        THEN Raise("AttributeError", "'list' object has no attribute 'get'")
        ELSE IF data.type # "start"
        THEN Raise("ValueError", "Invalid handshake: Invalid handshake type")
        ELSE IF fmt \notin SUPPORTED_STREAM_FORMATS \cup RAW_STREAM_FORMATS
        THEN Raise("ValueError", "Invalid handshake: Unsupported format '" \o fmt_raw
                       \o "'. Supported formats: flac, m4a, mp3, ogg, wav, webm")
        ELSE IF data.rate = Null
        THEN Raise("TypeError", "int() argument must be a string or a number")
        ELSE IF data.rate # Absent /\ data.rate \notin NumeralRates
        THEN Raise("ValueError", "Invalid handshake: invalid literal for int() "
                       \o "with base 10: '" \o data.rate \o "'")
        ELSE IF model_size # Absent /\ model_size \notin AllowedModelSizes
        THEN Raise("ValueError", "Invalid handshake: Invalid model size: " \o model_size)
        ELSE [raises |-> "none", text |-> "",
              audio_format |-> AudioFormat(fmt, IF data.rate = Absent THEN 0
                                                ELSE int(data.rate)),
              model_size |-> model_size]

\* format descriptors of an accepted handshake
HandshakeFormats ==
    { parse_handshake(m, q).audio_format : m \in HandshakeMessages, q \in QueryModelSizes }
    \ {NoFormat}

\* what the first frame is, for the history variable first_frame: the first of these
\* that applies, in the order parse_handshake looks at the frame
FrameKind(message, fallback_model_size) ==
    LET model == IF message.model_size # Absent THEN message.model_size
                 ELSE fallback_model_size
    IN  IF message.json = "malformed" THEN "malformed_json"
        ELSE IF message.json # "object" THEN "not_an_object"
        ELSE IF message.type # "start" THEN "wrong_type"
        ELSE IF STREAM_FORMAT_ALIASES(lower(IF message.format = Absent THEN "webm"
                                            ELSE message.format))
                    \notin SUPPORTED_STREAM_FORMATS \cup RAW_STREAM_FORMATS
             THEN "unsupported_encoding"
        ELSE IF message.rate = Null THEN "rate_not_a_number"
        ELSE IF message.rate = "abc" THEN "rate_not_a_numeral"
        ELSE IF model = "huge" THEN "disallowed_model_size"
        ELSE "start"

(* ---------------- ws_transcribe: handshake ---------------- *)
\* the first frame, which arrives while the handler waits in receive_text()
FirstFrames == IF pc = "handshake" THEN HandshakeMessages ELSE {}

\* HandshakeOk going on to the receive loop without the decoder start
HandshakeOk_without_decoder_start(message, fallback_model_size) ==
    /\ pc = "handshake"
    /\ LET parsed == parse_handshake(message, fallback_model_size)
       IN  /\ parsed.raises = "none"
           /\ audio_format' = parsed.audio_format
    /\ pc' = "receive"
    /\ session' = TRUE
    /\ first_frame' = FrameKind(message, fallback_model_size)
    /\ UNCHANGED << forced, process_vars, session_vars, decoder_vars, result, close_code,
                    frames, reads, history_vars, error_text, close_reason, sent, stop_at,
                    cleanups, fault, close_failed, ignored_frame >>

\* parse_handshake accepts the first frame; create_session.  The model size goes to
\* the recognizer only and is not kept
HandshakeOk(message, fallback_model_size) ==
    /\ pc = "handshake"
    /\ LET parsed == parse_handshake(message, fallback_model_size)
       IN  /\ parsed.raises = "none"
           /\ audio_format' = parsed.audio_format
           /\ pc' = IF needs_conversion(parsed.audio_format) THEN "start_decoder"
                    ELSE "receive"
    /\ session' = TRUE
    /\ first_frame' = FrameKind(message, fallback_model_size)
    /\ UNCHANGED << forced, process_vars, session_vars, decoder_vars, result, close_code,
                    frames, reads, history_vars, error_text, close_reason, sent, stop_at,
                    cleanups, fault, close_failed, ignored_frame >>

\* parse_handshake raises ValueError: close(code=1002, reason="Invalid handshake"), return
HandshakeBad(message, fallback_model_size) ==
    /\ pc = "handshake"
    /\ LET parsed == parse_handshake(message, fallback_model_size)
       IN  /\ parsed.raises = "ValueError"
           /\ error_text' = parsed.text
    /\ close_code' = CLOSE_PROTOCOL_ERROR
    /\ close_reason' = "Invalid handshake"
    /\ first_frame' = FrameKind(message, fallback_model_size)
    /\ fault' = "handshake"
    /\ pc' = "cleanup"
    /\ UNCHANGED << forced, process_vars, session, audio_format, session_vars, decoder_vars,
                    result, frames, reads, history_vars, sent, stop_at, cleanups, close_failed,
                    ignored_frame >>

\* parse_handshake raises something else than ValueError: the outer handler
HandshakeCrash(message, fallback_model_size) ==
    /\ pc = "handshake"
    /\ parse_handshake(message, fallback_model_size).raises
           \notin {"none", "ValueError"}
    /\ first_frame' = FrameKind(message, fallback_model_size)
    /\ fault' = "handshake_crash"
    /\ pc' = "error"
    /\ UNCHANGED << forced, process_vars, session, audio_format, session_vars, decoder_vars,
                    result, close_code, frames, reads, history_vars, error_text,
                    close_reason, sent, stop_at, cleanups, close_failed, ignored_frame >>

\* receive_text raises WebSocketDisconnect outside the loop's try: the outer handler
HandshakeDisconnect ==
    /\ pc = "handshake"
    /\ fault' = "disconnect"
    /\ pc' = "error"
    /\ UNCHANGED << forced, process_vars, session, audio_format, session_vars, decoder_vars,
                    result, close_code, frames, reads, history_vars, wire_vars >>

\* start_ffmpeg_decoder: the demuxer named after "-f" on the input side of the ffmpeg
\* command line, or the ValueError raised instead
ffmpeg_input_format(fmt) ==
    CASE fmt.format_type \in {"webm", "ogg"} -> fmt.format_type
      [] fmt.format_type = "m4a" -> "mp4"
      [] fmt.format_type \in {"mp3", "wav", "flac"} -> fmt.format_type
      [] fmt.format_type \in {"f32le", "s16le"} ->
            IF fmt.sample_rate = 0 THEN "ValueError" ELSE fmt.format_type
      [] OTHER -> "ValueError"

\* start_ffmpeg_decoder: the subprocess is spawned and the reader task created
StartDecoderOk ==
    /\ pc = "start_decoder"
    /\ ffmpeg_input_format(audio_format) # "ValueError"
    /\ ffmpeg_process' = "running"
    /\ reader_task' = "running"
    /\ pc' = "receive"
    /\ UNCHANGED << forced, process_vars, session, audio_format, session_vars, stdin_closing,
                    written, result, close_code, frames, reads, history_vars,
                    wire_vars, fault >>

\* create_subprocess_exec raises
StartDecoderFail ==
    /\ pc = "start_decoder"
    /\ fault' = "decoder_start"
    /\ pc' = "error"
    /\ UNCHANGED << forced, process_vars, session, audio_format, session_vars, decoder_vars,
                    result, close_code, frames, reads, history_vars,
                    wire_vars >>

(* ---------------- ws_transcribe: the receive loop ---------------- *)
\* the texts of the text frames a client sends after the handshake
TextFrames == {"stop", "close", "noop", "Stop"}

\* what websocket.receive() returns: a text frame, or a binary frame of len bytes
LoopMessages ==
    { [kind |-> "text", text |-> t, len |-> 0] : t \in TextFrames }
    \cup { [kind |-> "bytes", text |-> "", len |-> n] : n \in {0, 1} }

\* an empty binary frame is taken by the stop branch
receive_branch_empty_stops(msg) ==
    IF msg.kind = "text"
    THEN IF msg.text \in {"stop", "close"} THEN "stop" ELSE "continue"
    ELSE IF msg.len = 0 THEN "stop" ELSE "process"

\* the branch of the loop body a received message takes
receive_branch(msg) ==
    IF msg.kind = "text"
    THEN IF msg.text \in {"stop", "close"} THEN "stop" ELSE "continue"
    ELSE IF msg.len = 0 THEN "continue" ELSE "process"

\* a binary frame in direct PCM mode: process_audio_chunk -> add_audio_data
RecvPcm(n, v) ==
    /\ pc = "receive"
    /\ ~needs_conversion(audio_format)
    /\ \/ frames < MaxFrames
       \/ /\ frames < MaxFrames + MaxSilentExtra
          /\ n = chunk_bytes /\ v = 0
          /\ BufLen(pcm_buffer) = frames * chunk_bytes
          /\ LoudBytes(pcm_buffer, 0, BufLen(pcm_buffer)) = 0
    /\ frames' = frames + 1
    /\ pcm_buffer' = Extend(pcm_buffer, n, v)
    /\ ignored_frame' = NoFrame
    /\ pc' = "check"
    /\ UNCHANGED << forced, process_vars, session, audio_format, transcribed_len,
                    decoder_vars, result, close_code, reads, history_vars,
                    reply_vars, fault >>

\* feed_to_ffmpeg writing whether or not the decoder's input is closing
feed_to_ffmpeg_ignores_closing(process, closing) ==
    [starts |-> process = "none", writes |-> TRUE]

\* feed_to_ffmpeg: whether it starts a decoder first (no process object yet), and
\* whether it writes and drains (the input of the process is not closing)
feed_to_ffmpeg(process, closing) ==
    [starts |-> process = "none", writes |-> (process = "none" \/ ~closing)]

\* feed_to_ffmpeg starting a decoder whenever none is running
RecvEncoded_respawns ==
    /\ pc = "receive"
    /\ needs_conversion(audio_format)
    /\ frames < MaxEncoded
    /\ frames' = frames + 1
    /\ ffmpeg_process' = "running"
    /\ reader_task' = "running"
    /\ written' = (written \/ ~stdin_closing)
    /\ ignored_frame' = NoFrame
    /\ pc' = IF stdin_closing THEN "check" ELSE "feed"
    /\ UNCHANGED << forced, process_vars, session, audio_format, session_vars,
                    stdin_closing, result, close_code, reads, history_vars,
                    reply_vars, fault >>

\* a binary frame when conversion is needed: process_audio_chunk -> feed_to_ffmpeg
RecvEncoded ==
    /\ pc = "receive"
    /\ needs_conversion(audio_format)
    /\ frames < MaxEncoded
    /\ frames' = frames + 1
    /\ LET fed == feed_to_ffmpeg(ffmpeg_process, stdin_closing)
       IN  /\ ffmpeg_process' = IF fed.starts THEN "running" ELSE ffmpeg_process
           /\ reader_task' = IF fed.starts THEN "running" ELSE reader_task
           /\ written' = (written \/ fed.writes)
           /\ pc' = IF fed.writes THEN "feed" ELSE "check"
    /\ ignored_frame' = NoFrame
    /\ UNCHANGED << forced, process_vars, session, audio_format, session_vars,
                    stdin_closing, result, close_code, reads, history_vars,
                    reply_vars, fault >>

\* stdin.drain() returns
FeedDone ==
    /\ pc = "feed"
    /\ pc' = "check"
    /\ UNCHANGED << forced, process_vars, session, audio_format, session_vars, decoder_vars,
                    result, close_code, frames, reads, history_vars,
                    wire_vars, fault >>

\* stdin.drain() raises because the decoder is gone (BrokenPipeError/ConnectionResetError)
FeedFail ==
    /\ pc = "feed"
    /\ ffmpeg_process = "exited"
    /\ fault' = "feed"
    /\ pc' = "error"
    /\ UNCHANGED << forced, process_vars, session, audio_format, session_vars, decoder_vars,
                    result, close_code, frames, reads, history_vars,
                    wire_vars >>

\* a text frame other than stop/close, or a frame without payload: continue
RecvIgnored(msg) ==
    /\ pc = "receive"
    /\ receive_branch(msg) = "continue"
    /\ ignored_frame' = msg
    /\ UNCHANGED << pc, forced, process_vars, session, audio_format, session_vars,
                    decoder_vars, result, close_code, frames, reads, history_vars,
                    reply_vars, fault >>

\* "stop" or "close": close_ffmpeg_input when converting, then sleep
RecvStop ==
    /\ pc = "receive"
    /\ \E msg \in LoopMessages : receive_branch(msg) = "stop"
    /\ ignored_frame' = NoFrame
    /\ stdin_closing' = (stdin_closing \/ (needs_conversion(audio_format)
                                           /\ ffmpeg_process # "none"))
    /\ stop_at' = Len(sent)
    /\ pc' = "grace"
    /\ UNCHANGED << forced, process_vars, session, audio_format, session_vars,
                    ffmpeg_process, written, reader_task, result, close_code, frames, reads,
                    history_vars,
                    first_frame, error_text, close_reason, sent, cleanups,
                    fault, close_failed >>

\* the sleep ends: process_audio_chunk(session, b"", force=True) feeds the empty
\* payload to the decoder when converting, and appends nothing otherwise
GraceDone ==
    /\ pc = "grace"
    /\ forced' = TRUE
    /\ IF needs_conversion(audio_format)
       THEN LET fed == feed_to_ffmpeg(ffmpeg_process, stdin_closing)
            IN  /\ ffmpeg_process' = IF fed.starts THEN "running" ELSE ffmpeg_process
                /\ reader_task' = IF fed.starts THEN "running" ELSE reader_task
                /\ pc' = IF fed.writes THEN "feed" ELSE "check"
       ELSE /\ UNCHANGED << ffmpeg_process, reader_task >>
            /\ pc' = "check"
    /\ UNCHANGED << process_vars, session, audio_format, session_vars, stdin_closing,
                    written, result, close_code, frames, reads, history_vars,
                    wire_vars, fault >>

\* websocket.receive() reports the disconnect: break
Disconnect ==
    /\ pc = "receive"
    /\ fault' = "disconnect"
    /\ ignored_frame' = NoFrame
    /\ pc' = "cleanup"
    /\ UNCHANGED << forced, process_vars, session, audio_format, session_vars, decoder_vars,
                    result, close_code, frames, reads, history_vars,
                    reply_vars >>


(* ---------------- StreamingService.process_audio_chunk ---------------- *)
\* where the handler goes when process_audio_chunk returned None
AfterCycle == IF forced THEN "send_final" ELSE "receive"

\* should_transcribe(force) is false: return None
CycleNotReady ==
    /\ pc = "check"
    /\ \E speech \in 0..vad_frames(BufLen(pcm_buffer)) :
          ~should_transcribe(BufLen(pcm_buffer), transcribed_len, forced, has_real_vad, speech)
    /\ last_cycle' = "not_ready"
    /\ pc' = AfterCycle
    /\ UNCHANGED << forced, process_vars, session, audio_format, session_vars, decoder_vars,
                    result, close_code, frames, reads, returned, delta_append, trimmed, windows,
                    wire_vars, fault >>

\* ready, and get_audio_chunk_for_transcription returns None: return None
CycleNoChunk ==
    /\ pc = "check"
    /\ \E speech \in 0..vad_frames(BufLen(pcm_buffer)) :
          should_transcribe(BufLen(pcm_buffer), transcribed_len, forced, has_real_vad, speech)
    /\ LET got == get_audio_chunk_for_transcription(pcm_buffer, transcribed_len)
       IN  /\ got.ret \in {"none", "silent"}
           /\ transcribed_len' = got.transcribed_len
           /\ last_cycle' = got.ret
    /\ pc' = AfterCycle
    /\ UNCHANGED << forced, process_vars, session, audio_format, pcm_buffer, decoder_vars,
                    result, close_code, frames, reads, returned, delta_append, trimmed, windows,
                    wire_vars, fault >>

\* the recognition call started as a task the handler does not wait for
CycleExtract_detached ==
    /\ pc = "check"
    /\ \E speech \in 0..vad_frames(BufLen(pcm_buffer)) :
          should_transcribe(BufLen(pcm_buffer), transcribed_len, forced, has_real_vad, speech)
    /\ LET got == get_audio_chunk_for_transcription(pcm_buffer, transcribed_len)
       IN  /\ got.ret = "audio"
           /\ transcribed_len' = got.transcribed_len
           /\ windows' = Append(windows, << trimmed + transcribed_len,
                                            trimmed + transcribed_len + got.take >>)
    /\ last_cycle' = "audio"
    /\ pc' = AfterCycle
    /\ UNCHANGED << forced, process_vars, session, audio_format, pcm_buffer, decoder_vars,
                    result, close_code, frames, reads, returned, delta_append, trimmed,
                    wire_vars, fault >>

\* ready, and a window is extracted: the recognition call is dispatched
CycleExtract ==
    /\ pc = "check"
    /\ \E speech \in 0..vad_frames(BufLen(pcm_buffer)) :
          should_transcribe(BufLen(pcm_buffer), transcribed_len, forced, has_real_vad, speech)
    /\ LET got == get_audio_chunk_for_transcription(pcm_buffer, transcribed_len)
       IN  /\ got.ret = "audio"
           /\ transcribed_len' = got.transcribed_len
           /\ windows' = Append(windows, << trimmed + transcribed_len,
                                            trimmed + transcribed_len + got.take >>)
    /\ last_cycle' = "audio"
    /\ pc' = "transcribing"
    /\ UNCHANGED << forced, process_vars, session, audio_format, pcm_buffer, decoder_vars,
                    result, close_code, frames, reads, returned, delta_append, trimmed,
                    wire_vars, fault >>

\* ready, and the sample conversion raises ValueError: the outer handler
CycleError ==
    /\ pc = "check"
    /\ \E speech \in 0..vad_frames(BufLen(pcm_buffer)) :
          should_transcribe(BufLen(pcm_buffer), transcribed_len, forced, has_real_vad, speech)
    /\ LET got == get_audio_chunk_for_transcription(pcm_buffer, transcribed_len)
       IN  /\ got.ret = "error"
           /\ transcribed_len' = got.transcribed_len
    /\ last_cycle' = "error"
    /\ fault' = "conversion"
    /\ pc' = "error"
    /\ UNCHANGED << forced, process_vars, session, audio_format, pcm_buffer, decoder_vars,
                    result, close_code, frames, reads, returned, delta_append, trimmed, windows,
                    wire_vars >>

\* what the recognition engine can return as result.text
RecognizedTexts == {Null, "", "  ", " hi "}

\* str.strip(), on the texts above
strip(s) == CASE s = "  " -> "" [] s = " hi " -> "hi" [] OTHER -> s

\* transcribe_chunk building a delta from the text as the engine returned it
transcribe_chunk_unstripped(text) ==
    IF text = Null \/ text = "" THEN [type |-> "none", append |-> ""]
    ELSE [type |-> "delta", append |-> text]

\* transcribe_chunk: {} for a text that is empty after strip(), else the delta
transcribe_chunk(text) ==
    LET stripped == strip(IF text = Null THEN "" ELSE text)
    IN  IF stripped = "" THEN [type |-> "none", append |-> ""]
        ELSE [type |-> "delta", append |-> stripped]

\* transcribe_chunk returns, then trim_buffer, then "if result: return result"
TranscribeDone(text) ==
    /\ pc = "transcribing"
    /\ LET t == trim_buffer(pcm_buffer, transcribed_len)
       IN  /\ pcm_buffer' = t.pcm_buffer
           /\ transcribed_len' = t.transcribed_len
           /\ trimmed' = trimmed + (BufLen(pcm_buffer) - BufLen(t.pcm_buffer))
    /\ returned' = returned + 1
    /\ result' = transcribe_chunk(text).type
    /\ delta_append' = IF transcribe_chunk(text).type = "delta"
                       THEN transcribe_chunk(text).append ELSE delta_append
    /\ pc' = "deliver"
    /\ UNCHANGED << forced, process_vars, session, audio_format, decoder_vars, close_code,
                    frames, reads, windows, last_cycle,
                    wire_vars, fault >>

\* a recognition failure handled like a transport disconnect: break, no close
TranscribeFail_as_disconnect ==
    /\ pc = "transcribing"
    /\ returned' = returned + 1
    /\ fault' = "recognition"
    /\ pc' = "cleanup"
    /\ UNCHANGED << forced, process_vars, session, audio_format, session_vars, decoder_vars,
                    result, close_code, frames, reads, trimmed, windows, last_cycle, delta_append,
                    wire_vars >>

\* transcribe_chunk raises: the outer handler
TranscribeFail ==
    /\ pc = "transcribing"
    /\ returned' = returned + 1
    /\ fault' = "recognition"
    /\ pc' = "error"
    /\ UNCHANGED << forced, process_vars, session, audio_format, session_vars, decoder_vars,
                    result, close_code, frames, reads, trimmed, windows, last_cycle, delta_append,
                    wire_vars >>

\* back in the handler: send_json(result) when there is one
Deliver ==
    /\ pc = "deliver"
    /\ result' = "none"
    /\ sent' = IF result = "delta" THEN Append(sent, "delta") ELSE sent
    /\ pc' = AfterCycle
    /\ UNCHANGED << forced, process_vars, session, audio_format, session_vars, decoder_vars,
                    close_code, frames, reads, history_vars,
                    first_frame, error_text, close_reason, stop_at, cleanups,
                    fault, close_failed, ignored_frame >>

\* send_json(result) raises WebSocketDisconnect, the client being gone: break
DeliverFail ==
    /\ pc = "deliver"
    /\ result = "delta"
    /\ result' = "none"
    /\ fault' = "send"
    /\ pc' = "cleanup"
    /\ UNCHANGED << forced, process_vars, session, audio_format, session_vars, decoder_vars,
                    close_code, frames, reads, history_vars, wire_vars >>

(* ---------------- ws_transcribe: the ways out ---------------- *)
\* send_json({"type": "final"}) and break
SendFinal ==
    /\ pc = "send_final"
    /\ sent' = Append(sent, "final")
    /\ pc' = "cleanup"
    /\ UNCHANGED << forced, process_vars, session, audio_format, session_vars, decoder_vars,
                    result, close_code, frames, reads, history_vars,
                    first_frame, error_text, close_reason, stop_at, cleanups,
                    fault, close_failed, ignored_frame >>

\* send_json({"type": "final"}) raises WebSocketDisconnect: break
SendFinalFail ==
    /\ pc = "send_final"
    /\ fault' = "send"
    /\ pc' = "cleanup"
    /\ UNCHANGED << forced, process_vars, session, audio_format, session_vars, decoder_vars,
                    result, close_code, frames, reads, history_vars, wire_vars >>

\* except Exception: close(code=1011, reason="Internal error") returns
CloseInternalError ==
    /\ pc = "error"
    /\ close_code' = CLOSE_INTERNAL_ERROR
    /\ close_reason' = "Internal error"
    /\ pc' = "cleanup"
    /\ UNCHANGED << forced, process_vars, session, audio_format, session_vars, decoder_vars,
                    result, frames, reads, history_vars,
                    first_frame, error_text, sent, stop_at, cleanups,
                    fault, close_failed, ignored_frame >>

\* except Exception: close(code=1011, reason="Internal error") raises; except: pass
CloseInternalErrorFail ==
    /\ pc = "error"
    /\ close_code' = CLOSE_INTERNAL_ERROR
    /\ close_reason' = "Internal error"
    /\ close_failed' = TRUE
    /\ pc' = "cleanup"
    /\ UNCHANGED << forced, process_vars, session, audio_format, session_vars, decoder_vars,
                    result, frames, reads, history_vars,
                    first_frame, error_text, sent, stop_at, cleanups,
                    fault, ignored_frame >>

\* the teardown placed at the end of the try body instead of in finally: it is
\* skipped when the exception handler ran
Cleanup_skipped_after_error ==
    /\ pc = "cleanup"
    /\ reader_task' = IF session /\ close_code = 0 /\ reader_task = "running"
                      THEN "cancelled" ELSE reader_task
    /\ ffmpeg_process' = IF session /\ close_code = 0 /\ ffmpeg_process = "running"
                         THEN "exited" ELSE ffmpeg_process
    /\ cleanups' = IF session /\ close_code = 0 THEN cleanups + 1 ELSE cleanups
    /\ pc' = "closed"
    /\ UNCHANGED << forced, process_vars, session, audio_format, session_vars, stdin_closing,
                    written, result, close_code, frames, reads, history_vars,
                    first_frame, error_text, close_reason, sent, stop_at, fault, close_failed, ignored_frame >>

\* cleanup that cancels the reader task and leaves the decoder process alone
Cleanup_reader_only ==
    /\ pc = "cleanup"
    /\ reader_task' = IF session /\ reader_task = "running" THEN "cancelled" ELSE reader_task
    /\ cleanups' = IF session THEN cleanups + 1 ELSE cleanups
    /\ pc' = "closed"
    /\ UNCHANGED << forced, process_vars, session, audio_format, session_vars,
                    ffmpeg_process, stdin_closing, written, result, close_code, frames,
                    reads, history_vars, first_frame, error_text, close_reason, sent,
                    stop_at, fault, close_failed, ignored_frame >>

\* finally: session.cleanup() when a session exists; on the event loop cancel() and
\* kill() succeed and only the await of the cancelled reader may raise
Cleanup ==
    /\ pc = "cleanup"
    /\ \E fail \in RuntimeFailures :
          LET done == cleanup(reader_task, ffmpeg_process, fail)
          IN  /\ reader_task' = IF session THEN done.reader_task ELSE reader_task
              /\ ffmpeg_process' = IF session THEN done.ffmpeg_process ELSE ffmpeg_process
    /\ cleanups' = IF session THEN cleanups + 1 ELSE cleanups
    /\ pc' = "closed"
    /\ UNCHANGED << forced, process_vars, session, audio_format, session_vars, stdin_closing,
                    written, result, close_code, frames, reads, history_vars,
                    first_frame, error_text, close_reason, sent, stop_at,
                    fault, close_failed, ignored_frame >>

(* ---------------- the decoder and its reader task ---------------- *)
\* the handler is suspended in an await, so another task of the event loop can run:
\* "check" is reached without a suspension, and so is "deliver" without a result to send
HandlerSuspended == pc # "check" /\ ~(pc = "deliver" /\ result = "none")

\* _read_pcm_from_ffmpeg: one read returns n bytes, appended by _append_pcm_chunk
ReaderAppend(n, v) ==
    /\ HandlerSuspended
    /\ reader_task = "running"
    /\ ffmpeg_process = "running"
    /\ written
    /\ reads < MaxReads
    /\ reads' = reads + 1
    /\ pcm_buffer' = Extend(pcm_buffer, n, v)
    /\ UNCHANGED << pc, forced, process_vars, session, audio_format, transcribed_len,
                    decoder_vars, result, close_code, frames, history_vars,
                    wire_vars, fault >>

\* the decoder process ends by itself (end of input, or a failure)
DecoderExit ==
    /\ ffmpeg_process = "running"
    /\ ffmpeg_process' = "exited"
    /\ UNCHANGED << pc, forced, process_vars, session, audio_format, session_vars,
                    stdin_closing, written, reader_task, result, close_code, frames, reads,
                    history_vars,
                    wire_vars, fault >>

\* _read_pcm_from_ffmpeg: read returns b"" and the loop ends
ReaderEof ==
    /\ HandlerSuspended
    /\ reader_task = "running"
    /\ ffmpeg_process = "exited"
    /\ reader_task' = "done"
    /\ UNCHANGED << pc, forced, process_vars, session, audio_format, session_vars,
                    ffmpeg_process, stdin_closing, written, result, close_code, frames,
                    reads, history_vars,
                    wire_vars, fault >>

Next ==
    \/ \E m \in FirstFrames, q \in QueryModelSizes : HandshakeOk(m, q)
    \/ \E m \in FirstFrames, q \in QueryModelSizes : HandshakeBad(m, q)
    \/ \E m \in FirstFrames, q \in QueryModelSizes : HandshakeCrash(m, q)
    \/ HandshakeDisconnect
    \/ StartDecoderOk
    \/ StartDecoderFail
    \/ \E f \in PcmFrames : RecvPcm(f[1], f[2])
    \/ RecvEncoded
    \/ FeedDone
    \/ FeedFail
    \/ \E msg \in LoopMessages : RecvIgnored(msg)
    \/ RecvStop
    \/ GraceDone
    \/ Disconnect
    \/ CycleNotReady
    \/ CycleNoChunk
    \/ CycleExtract
    \/ CycleError
    \/ \E text \in RecognizedTexts : TranscribeDone(text)
    \/ TranscribeFail
    \/ Deliver
    \/ DeliverFail
    \/ SendFinal
    \/ SendFinalFail
    \/ CloseInternalError
    \/ CloseInternalErrorFail
    \/ Cleanup
    \/ \E n \in ReadSizes, v \in DecodedValues(pcm_buffer) : ReaderAppend(n, v)
    \/ DecoderExit
    \/ ReaderEof

Spec == Init /\ [][Next]_vars

(* ---------------- one-shot requests ---------------- *)
\* the temp files of the request being served
tmp_path == << served + 1, "input" >>
wav_path == << served + 1, "wav" >>

\* transcribe_from_file / transcribe_from_url: tempfile.mkstemp() and os.close()
BeginRequest(kind) ==
    /\ request_pc = "idle"
    /\ served < MaxRequests
    /\ request' = kind
    /\ request_pc' = "save"
    /\ temp_files' = temp_files \cup {tmp_path}
    /\ status' = 0
    /\ UNCHANGED << served, remove_failed, stream_vars >>

\* save_uploaded_file / download_url_to_file: the size check, then the write
SaveInput(size_bytes) ==
    /\ request_pc = "save"
    /\ status' = validate_file_size(size_bytes)
    /\ request_pc' = IF validate_file_size(size_bytes) = 0 THEN "validate" ELSE "finally"
    /\ UNCHANGED << request, temp_files, served, remove_failed, stream_vars >>

\* download_url_to_file: urlopen or read raised, re-raised as HTTPException(422)
DownloadFail ==
    /\ request_pc = "save"
    /\ request = "url"
    /\ status' = 422
    /\ request_pc' = "finally"
    /\ UNCHANGED << request, temp_files, served, remove_failed, stream_vars >>

\* validate_audio_format(tmp_path, original_name); the temp path has no extension
ValidateFormat(candidates, ext) ==
    /\ request_pc = "validate"
    /\ LET format == validate_audio_format(candidates, << "", ext >>)
       IN  /\ status' = IF format = "HTTPException" THEN 400 ELSE 0
           /\ request_pc' = IF format = "HTTPException" THEN "finally" ELSE "normalize"
    /\ UNCHANGED << request, temp_files, served, remove_failed, stream_vars >>

\* normalize_and_validate_audio: normalize_to_wav_16k_mono, any exception re-raised
\* as HTTPException(422), then validate_duration
Normalize(outcome, duration) ==
    /\ request_pc = "normalize"
    /\ LET done == normalize_to_wav_16k_mono(outcome)
           code == IF done.raises THEN 422 ELSE validate_duration(duration)
       IN  /\ temp_files' = IF done.wav_created THEN temp_files \cup {wav_path}
                            ELSE temp_files
           /\ status' = code
           /\ request_pc' = IF code = 0 THEN "transcribe" ELSE "finally"
    /\ UNCHANGED << request, served, remove_failed, stream_vars >>

\* _perform_transcription: transcriber.transcribe returns, or raises (response 500)
Recognize(raises) ==
    /\ request_pc = "transcribe"
    /\ status' = IF raises THEN 500 ELSE 200
    /\ request_pc' = "finally"
    /\ UNCHANGED << request, temp_files, served, remove_failed, stream_vars >>

\* finally: self._cleanup_temp_file(tmp_path); the request completes
CleanupTempFile(remove_raises) ==
    /\ request_pc = "finally"
    /\ temp_files' = cleanup_temp_file(temp_files, tmp_path, remove_raises).files
    /\ remove_failed' = IF remove_raises THEN remove_failed \cup {served + 1}
                        ELSE remove_failed
    /\ served' = served + 1
    /\ request_pc' = "idle"
    /\ UNCHANGED << request, status, stream_vars >>

NextOneShot ==
    \/ \E kind \in {"file", "url"} : BeginRequest(kind)
    \/ \E size_bytes \in ContentSizes : SaveInput(size_bytes)
    \/ DownloadFail
    \/ \E candidates \in ProbeNames, ext \in NameExtensions : ValidateFormat(candidates, ext)
    \/ \E outcome \in NormalizeOutcomes, duration \in Durations : Normalize(outcome, duration)
    \/ \E raises \in BOOLEAN : Recognize(raises)
    \/ \E remove_raises \in BOOLEAN : CleanupTempFile(remove_raises)

\* the service serving one-shot requests, no streaming session open
SpecOneShot == Init /\ [][NextOneShot]_vars



(* ---------------- properties ---------------- *)
TypeOK ==
    /\ pc \in {"handshake", "start_decoder", "receive", "feed", "check", "transcribing",
               "deliver", "grace", "send_final", "error", "cleanup", "closed"}
    /\ forced \in BOOLEAN /\ has_real_vad \in BOOLEAN /\ session \in BOOLEAN
    /\ request \in {"none", "file", "url"}
    /\ request_pc \in {"idle", "save", "validate", "normalize", "transcribe", "finally"}
    /\ temp_files \subseteq (1..MaxRequests) \X {"input", "wav"}
    /\ served \in 0..MaxRequests
    /\ status \in {0, 200, 400, 413, 422, 500}
    /\ remove_failed \subseteq 1..MaxRequests
    /\ audio_format \in HandshakeFormats \cup {NoFormat}
    /\ transcribed_len \in Int
    /\ ffmpeg_process \in {"none", "running", "exited"}
    /\ reader_task \in {"none", "running", "done", "cancelled"}
    /\ result \in {"none", "delta"}
    /\ close_code \in {0, CLOSE_PROTOCOL_ERROR, CLOSE_INTERNAL_ERROR}
    /\ frames \in 0..(MaxFrames + MaxSilentExtra) /\ reads \in 0..MaxReads
    /\ close_reason \in {"", "Invalid handshake", "Internal error"}
    /\ close_failed \in BOOLEAN
    /\ returned \in 0..Len(windows)
    /\ delta_append \in {""} \cup { strip(t) : t \in RecognizedTexts \ {Null} }
    /\ ignored_frame \in LoopMessages \cup {NoFrame}
    /\ \A i \in 1..Len(sent) : sent[i] \in {"delta", "final"}
    /\ stop_at \in -1..Len(sent)
    /\ cleanups \in 0..1

\* windows start on a sample boundary, so a run of the buffer never splits a sample
\* of a window
SampleAligned ==
    /\ transcribed_len % SAMPLE_WIDTH = 0
    /\ trimmed % SAMPLE_WIDTH = 0
    /\ \A i \in 1..(Len(pcm_buffer) - 1) : pcm_buffer[i].n % SAMPLE_WIDTH = 0

\* the un-transcribed length and the window extraction would look at
NewAudioLen == BufLen(pcm_buffer) - transcribed_len
WindowTake == Min(chunk_bytes, NewAudioLen)

\* C1: in every reachable state of a session 0 <= transcribed_len <= len(pcm_buffer)
C1_OffsetWithinBuffer ==
    /\ 0 <= transcribed_len
    /\ transcribed_len <= BufLen(pcm_buffer)

\* C1 witness: appends, extractions and a trim have happened and audio is pending
C1_Witness ==
    /\ trimmed > 0
    /\ Len(windows) >= 3
    /\ 0 < transcribed_len
    /\ transcribed_len < BufLen(pcm_buffer)

\* the step in which process_audio_chunk calls trim_buffer
TrimStep == pc = "transcribing" /\ pc' = "deliver"

\* C2: transcribed_len never decreases except in trim_buffer; a trim that removes k
\* bytes from the front lowers it by exactly k, and the bytes from the offset on are
\* the same before and after
C2_OffsetMonotoneExceptTrim ==
    [][ IF TrimStep
        THEN LET k == BufLen(pcm_buffer) - BufLen(pcm_buffer')
             IN  /\ k >= 0
                 /\ transcribed_len' = transcribed_len - k
                 /\ DelFront(pcm_buffer', transcribed_len')
                      = DelFront(pcm_buffer, transcribed_len)
        ELSE transcribed_len' >= transcribed_len ]_vars

\* C2 witness: a trim has just removed bytes
C2_Witness ==
    /\ pc = "deliver"
    /\ trimmed > 0
    /\ transcribed_len = 2 * chunk_bytes

\* bytes two windows have in common
Overlap(w1, w2) == Max(0, Min(w1[2], w2[2]) - Max(w1[1], w2[1]))

\* C3: two consecutive extractions overlap by exactly overlap_bytes: extraction n+1
\* starts overlap_bytes before the end of extraction n
C3_ConsecutiveOverlap ==
    \A i \in 1..(Len(windows) - 1) :
        /\ windows[i + 1][1] = windows[i][2] - overlap_bytes
        /\ Overlap(windows[i], windows[i + 1]) = overlap_bytes

\* C3 witness: four extractions with a trim between them
C3_Witness ==
    /\ Len(windows) >= 4
    /\ trimmed > 0

\* C4: every stream byte before the offset lies in a window already extracted (checked
\* at the places a gap can start: the stream's start and the end of each window); the
\* bytes from the offset on are still in the buffer
C4_NoSampleLost ==
    LET offset == trimmed + transcribed_len
        starts == {0} \cup { windows[i][2] : i \in 1..Len(windows) }
    IN  /\ transcribed_len >= 0
        /\ offset <= trimmed + BufLen(pcm_buffer)
        /\ \A p \in starts :
              p < offset => \E i \in 1..Len(windows) : windows[i][1] <= p /\ p < windows[i][2]

\* C4 witness: windows were extracted, a trim removed bytes and audio is pending
C4_Witness ==
    /\ Len(windows) >= 3
    /\ trimmed > 0
    /\ NewAudioLen > overlap_bytes


\* the window extraction would look at is silent
WindowSilent ==
    /\ NewAudioLen > 0
    /\ pcm16_decodable(WindowTake)
    /\ rms_silent(pcm_buffer, transcribed_len, WindowTake)

\* C5: when the window at the offset is silent, the cycle returns no chunk, leaves
\* transcribed_len and the buffer unchanged and invokes no recognition
C5_SilentWindowSkipped ==
    [][ (pc = "check" /\ WindowSilent)
        => /\ transcribed_len' = transcribed_len
           /\ pcm_buffer' = pcm_buffer
           /\ windows' = windows
           /\ pc' # "transcribing" ]_vars

\* C5 witness: a cycle that was ready has just skipped a silent window
C5_Witness ==
    /\ last_cycle = "silent"
    /\ pc = "receive"
    /\ WindowSilent
    /\ NewAudioLen >= min_chunk_bytes

\* the window at the offset is a full chunk and silent: appends do not change it and
\* trim_buffer does not reach it, so every later extraction looks at the same bytes
Blocked ==
    /\ NewAudioLen >= chunk_bytes
    /\ rms_silent(pcm_buffer, transcribed_len, chunk_bytes)

\* at least one non-silent sample lies in the buffer after the window
SoundAfterWindow ==
    LoudBytes(pcm_buffer, transcribed_len + WindowTake, BufLen(pcm_buffer)) >= SAMPLE_WIDTH

\* a blocked session stays blocked and extracts nothing, whatever happens next
BlockedForever == [][ Blocked => (Blocked' /\ windows' = windows) ]_vars

BufferBound == (3 * chunk_bytes - overlap_bytes) + chunk_bytes + LargestFrame

\* C7: len(pcm_buffer) stays below a fixed bound for any sequence of frames
C7_BufferBounded == BufLen(pcm_buffer) <= BufferBound

\* C8: right after trim_buffer transcribed_len <= 2*chunk_bytes, and always
\* transcribed_len <= 3*chunk_bytes - overlap_bytes
C8_HistoryCapped ==
    /\ transcribed_len <= 3 * chunk_bytes - overlap_bytes
    /\ pc = "deliver" => transcribed_len <= 2 * chunk_bytes

\* C8 witness: the fourth extraction has been trimmed back to two chunks of history
C8_Witness ==
    /\ pc = "deliver"
    /\ Len(windows) >= 4
    /\ transcribed_len = 2 * chunk_bytes

\* C9: with at least chunk_bytes un-transcribed, should_transcribe(force=False) is
\* true for every VAD score, with the real classifier or the fallback
C9_FullChunkAlwaysReady ==
    NewAudioLen >= chunk_bytes
    => \A real_vad \in BOOLEAN, speech \in 0..vad_frames(BufLen(pcm_buffer)) :
          should_transcribe(BufLen(pcm_buffer), transcribed_len, FALSE, real_vad, speech)

\* C9 witness: a readiness check with a full chunk pending
C9_Witness ==
    /\ pc = "check"
    /\ ~forced
    /\ NewAudioLen >= chunk_bytes
    /\ vad_frames(BufLen(pcm_buffer)) > 0

\* C10: with less than min_chunk_bytes un-transcribed and force false,
\* should_transcribe is false for every VAD score
C10_BelowMinimumNeverReady ==
    NewAudioLen < min_chunk_bytes
    => \A real_vad \in BOOLEAN, speech \in 0..vad_frames(BufLen(pcm_buffer)) :
          ~should_transcribe(BufLen(pcm_buffer), transcribed_len, FALSE, real_vad, speech)

\* C10 witness: a readiness check with some audio pending, less than the minimum
\* chunk, in a buffer long enough for the VAD to score
C10_Witness ==
    /\ pc = "check"
    /\ ~forced
    /\ 0 < NewAudioLen
    /\ NewAudioLen < min_chunk_bytes
    /\ vad_frames(BufLen(pcm_buffer)) > 0

\* C11: should_transcribe(force=True) returns true exactly when there is un-transcribed
\* audio (new_audio_len > 0), whatever the minimum-size, full-chunk and VAD rules say
C11_ForcedReadyIffPending ==
    \A real_vad \in BOOLEAN : \A speech \in 0..vad_frames(BufLen(pcm_buffer)) :
        should_transcribe(BufLen(pcm_buffer), transcribed_len, TRUE, real_vad, speech)
            <=> NewAudioLen > 0

\* C11 witness: the forced final cycle is about to run on a tail shorter than the
\* minimum chunk, after earlier windows were extracted
C11_Witness ==
    /\ pc = "check" /\ forced
    /\ 0 < NewAudioLen /\ NewAudioLen < min_chunk_bytes
    /\ Len(windows) >= 1

\* C12: with the fallback VAD classifier (has_real_vad false) the pause branch cannot
\* fire: should_transcribe(force=False) is false whenever
\* min_chunk_bytes <= un-transcribed length < chunk_bytes
C12_FallbackNeverPauses ==
    (~has_real_vad /\ min_chunk_bytes <= NewAudioLen /\ NewAudioLen < chunk_bytes)
        => ~should_transcribe(BufLen(pcm_buffer), transcribed_len, FALSE, has_real_vad, 0)

\* the connection's state in the terms of the specification: the handler awaits or
\* sets up the session, serves the receive loop, runs the stop sequence, or has left
\* the protocol for its exception handler and its finally block
Phase ==
    IF pc \in {"handshake", "start_decoder"} THEN "AwaitingHandshake"
    ELSE IF pc \in {"error", "cleanup", "closed"} THEN "Closed"
    ELSE IF pc \in {"grace", "send_final"} \/ forced THEN "Finalizing"
    ELSE "Streaming"

PhaseSteps ==
    { <<"AwaitingHandshake", "Streaming">>, <<"Streaming", "Finalizing">>,
      <<"Finalizing", "Closed">>, <<"AwaitingHandshake", "Closed">>,
      <<"Streaming", "Closed">> }

\* C13: a connection moves only along AwaitingHandshake -> Streaming -> Finalizing ->
\* Closed, or to Closed from any state, and never leaves Closed; a binary frame is
\* taken in only in Streaming, and Streaming is entered only after a validated
\* handshake with, when conversion is needed, the decoder and its reader started
C13_PhaseOrder ==
    /\ [][Phase' = Phase \/ <<Phase, Phase'>> \in PhaseSteps]_vars
    /\ [][frames' # frames => Phase = "Streaming"]_vars
    /\ [](Phase = "Streaming" =>
              /\ session /\ first_frame = "start"
              /\ needs_conversion(audio_format) =>
                     (ffmpeg_process # "none" /\ reader_task # "none"))

\* C13 witness: a converting connection went through all four states: frames were
\* taken in, the stop sequence sent final, and the handler has finished
C13_Witness ==
    /\ pc = "closed" /\ needs_conversion(audio_format)
    /\ frames > 0 /\ stop_at >= 0
    /\ sent # <<>> /\ sent[Len(sent)] = "final"

CLOSE_UNSUPPORTED_DATA == 1003
REASON_KEEP == 117
TruncatedReason(text) ==
    IF Len(text) > REASON_KEEP + Len("...") THEN SubSeq(text, 1, REASON_KEEP) \o "..."
    ELSE text

\* C15: when handshake validation fails the connection is closed with code 1003 and
\* the validation error text as reason, truncated to 117 characters and "..." when
\* too long
C15_CloseReasonIsErrorText ==
    error_text # ""
        => /\ close_code = CLOSE_UNSUPPORTED_DATA
           /\ close_reason = TruncatedReason(error_text)

\* messages of each type sent so far, and the deltas sent since the stop frame
FinalsSent == Cardinality({i \in 1..Len(sent) : sent[i] = "final"})
DeltasSent == Cardinality({i \in 1..Len(sent) : sent[i] = "delta"})
FinalDeltas == Cardinality({i \in 1..Len(sent) : i > stop_at /\ sent[i] = "delta"})

\* the handler finished after a stop frame, the client still being connected and
\* the recognition call (whose failure is fatal by design) not having raised
GracefulStopDone ==
    /\ pc = "closed"
    /\ stop_at >= 0
    /\ fault \notin {"send", "recognition"}

\* C16: on every graceful stop the handler sends {"type": "final"} exactly once before
\* the connection closes, and no session sends final more than once
C16_FinalOnceOnStop ==
    /\ FinalsSent <= 1
    /\ GracefulStopDone => FinalsSent = 1

\* the tail the forced cycle looks at holds at least one sample and is not silent
TailNonSilent ==
    /\ NewAudioLen >= SAMPLE_WIDTH
    /\ LoudBytes(pcm_buffer, transcribed_len, transcribed_len + WindowTake) >= SAMPLE_WIDTH
    /\ ~rms_silent(pcm_buffer, transcribed_len, WindowTake)

\* C17: finalization emits at most one delta, exactly one when the tail is non-empty and
\* non-silent and the recognized text is non-empty, none when no audio was sent, and
\* then exactly one final; final is the last message the handler ever sends
C17_FinalizationMessages ==
    /\ [](stop_at >= 0 => FinalDeltas <= 1)
    /\ [](FinalsSent >= 1 => (FinalsSent = 1 /\ sent[Len(sent)] = "final"))
    /\ []((GracefulStopDone /\ frames = 0) => sent = <<"final">>)
    /\ [][(pc = "check" /\ forced /\ TailNonSilent /\ pc' # pc)
              => pc' = "transcribing"]_vars
    /\ [][(pc = "deliver" /\ forced /\ result = "delta" /\ pc' # pc /\ fault' = "none")
              => (sent' = Append(sent, "delta") /\ pc' = "send_final")]_vars
    /\ [][(pc = "send_final" /\ pc' # pc /\ fault' = "none")
              => sent' = Append(sent, "final")]_vars

\* a fresh direct-PCM session has been fed non-silent PCM totalling exactly chunk_bytes,
\* the cycle of the last frame is over, and every recognition returned non-empty text
FedOneChunk ==
    /\ session /\ ~needs_conversion(audio_format)
    /\ pc = "receive"
    /\ trimmed = 0
    /\ BufLen(pcm_buffer) = chunk_bytes
    /\ LoudBytes(pcm_buffer, 0, chunk_bytes) = chunk_bytes
    /\ DeltasSent = Len(windows)

\* C18 as stated: feeding non-silent PCM totalling exactly chunk_bytes triggers exactly
\* one delta and advances transcribed_len by chunk_bytes - overlap_bytes
C18_ChunkTotalOneDelta ==
    FedOneChunk => (DeltasSent = 1 /\ transcribed_len = chunk_bytes - overlap_bytes)

\* C18 amended: a single binary frame of exactly chunk_bytes of non-silent PCM on a
\* fresh direct-PCM session triggers exactly one delta, for the window of the whole
\* frame, and advances transcribed_len by chunk_bytes - overlap_bytes
C18_OneFrameOneDelta ==
    (FedOneChunk /\ frames = 1)
        => /\ sent = <<"delta">>
           /\ windows = << <<0, chunk_bytes>> >>
           /\ transcribed_len = chunk_bytes - overlap_bytes

\* C18 witness: the one-frame case, after its delta was sent
C18_Witness ==
    /\ FedOneChunk /\ frames = 1
    /\ sent = <<"delta">>

\* C19: for every session that was created, cleanup runs exactly once before the
\* handler finishes, whichever way the handler leaves: graceful stop, disconnect,
\* decoder start failure, or a failure during Streaming or Finalizing
C19_CleanupOnce ==
    /\ cleanups <= 1
    /\ pc = "closed" => cleanups = (IF session THEN 1 ELSE 0)
    /\ cleanups = 1 => pc = "closed"

\* C19 witness: the handler has finished after the decoder failed to start
C19_Witness ==
    /\ pc = "closed" /\ session
    /\ fault = "decoder_start" /\ close_code = CLOSE_INTERNAL_ERROR
    /\ cleanups = 1

C21_CleanupNeverRaisesIdempotent ==
    /\ pc = "cleanup" =>
          \A f \in CleanupFailures :
              LET once  == cleanup(reader_task, ffmpeg_process, f)
                  twice == cleanup(once.reader_task, once.ffmpeg_process, f)
              IN  /\ ~once.raises /\ ~twice.raises
                  /\ twice.reader_task = once.reader_task
                  /\ twice.ffmpeg_process = once.ffmpeg_process
    /\ pc = "closed" =>
          \A g \in CleanupFailures :
              LET again == cleanup(reader_task, ffmpeg_process, g)
              IN  /\ ~again.raises
                  /\ again.reader_task = reader_task
                  /\ again.ffmpeg_process = ffmpeg_process

\* C21 witness: the handler's cleanup ran on a session whose reader and decoder were
\* both still running when the client disconnected
C21_Witness ==
    /\ pc = "closed" /\ cleanups = 1 /\ fault = "disconnect"
    /\ reader_task = "cancelled" /\ ffmpeg_process = "exited"
    /\ reads > 0 /\ ~stdin_closing

\* C22: a transport disconnect, in whatever state it arrives (while the handshake is
\* awaited, in the receive loop, or while a delta or the final is sent), ends the
\* handler without the internal-error path: the handler is never in its
\* except-Exception block and never attempts close(1011) because of a disconnect
C22_DisconnectNeverInternalError ==
    fault \in {"disconnect", "send"} => (pc # "error" /\ close_code # CLOSE_INTERNAL_ERROR)

\* the failures raised inside the receive loop that neither inner handler catches:
\* feed_to_ffmpeg, the conversion of the window, the recognition call
UnexpectedFailures == {"feed", "conversion", "recognition"}

Unrelated(msg) ==
    \/ msg.kind = "text" /\ msg.text # "stop" /\ msg.text # "close"
    \/ msg.kind = "bytes" /\ msg.len = 0

\* C24: in the receive loop every text frame other than the literal "stop" or "close",
\* and every empty binary frame, takes the continue branch, and the step that receives
\* it leaves the handler in the loop with buffer, offset, decoder, frame count, sent
\* messages, close code and fault as they were
C24_UnrelatedFrameIgnored ==
    [][ /\ \A msg \in LoopMessages : Unrelated(msg) => receive_branch(msg) = "continue"
        /\ (ignored_frame' # ignored_frame /\ ignored_frame' # NoFrame) =>
              /\ Unrelated(ignored_frame')
              /\ pc = "receive" /\ pc' = "receive"
              /\ UNCHANGED << session_vars, decoder_vars, forced, result, frames, sent,
                              close_code, close_failed, fault, history_vars >> ]_vars

\* an unrelated frame was skipped in a loop that holds audio not yet transcribed
C24_Witness ==
    /\ pc = "receive"
    /\ ignored_frame # NoFrame
    /\ ignored_frame.kind = "text"
    /\ BufLen(pcm_buffer) > transcribed_len
    /\ fault = "none"

\* recognition calls started and not yet returned: one call per extracted window
InFlight == Len(windows) - returned

\* C25: at most one recognition call of the session is in flight, and exactly while the
\* handler awaits it; a result is held only between its return and its send, when every
\* call started so far has returned, so a window is extracted only when no call is in
\* flight and no result is pending, and the deltas sent never outnumber the returned
\* calls: each delta goes out while its window is the last one extracted
C25_RecognitionSerial ==
    /\ InFlight \in {0, 1}
    /\ (InFlight = 1) <=> (pc = "transcribing")
    /\ result = "delta" => (pc = "deliver" /\ InFlight = 0)
    /\ pc = "check" => (InFlight = 0 /\ result = "none")
    /\ DeltasSent <= returned

\* the second recognition call of a session is in flight after the first delta was sent
C25_Witness ==
    /\ pc = "transcribing"
    /\ Len(windows) = 2
    /\ returned = 1
    /\ DeltasSent = 1

\* the handler takes the next binary frame of the client and hands it to the session
IngestFrame ==
    \/ \E f \in PcmFrames : RecvPcm(f[1], f[2])
    \/ RecvEncoded

\* the reader task appends decoded output to the buffer
ReaderAppends == \E n \in ReadSizes, v \in DecodedValues(pcm_buffer) : ReaderAppend(n, v)

\* C26: while a recognition call of the session is in flight, the session can take and
\* ingest the next binary frame (as long as the client has frames left to send), and a
\* running reader with decoder output left can append to the buffer
C26_RecognitionNeverStalls ==
    pc = "transcribing" =>
        /\ (frames < (IF needs_conversion(audio_format) THEN MaxEncoded ELSE MaxFrames))
              => ENABLED IngestFrame
        /\ (reader_task = "running" /\ ffmpeg_process = "running" /\ written
                /\ reads < MaxReads)
              => ENABLED ReaderAppends

\* the half of C26 about the reader alone
ReaderNeverStalls ==
    (pc = "transcribing" /\ reader_task = "running" /\ ffmpeg_process = "running" /\ written
        /\ reads < MaxReads) => ENABLED ReaderAppends

\* who has written the session's buffer: without conversion there is no decoder, no
\* reader task and no read; with conversion every byte that ever entered the buffer
\* came from a read of the reader task
SingleWriter ==
    session =>
        IF needs_conversion(audio_format)
        THEN BufLen(pcm_buffer) + trimmed = reads * READ_SIZE
        ELSE ffmpeg_process = "none" /\ reader_task = "none" /\ reads = 0

\* C27: the buffer of a session has one writer. A decoder process and its reader task
\* are started together, only for a format that needs conversion, only when the session
\* has none yet, and never a second time (neither handle returns to "none" or to
\* "running" once it left it); with conversion only reads of that reader fill the
\* buffer, without conversion nothing is spawned and only direct appends fill it
C27_SingleWriter ==
    [][ /\ SingleWriter'
        /\ (ffmpeg_process' = "running" /\ ffmpeg_process # "running") =>
              /\ ffmpeg_process = "none" /\ reader_task = "none"
              /\ reader_task' = "running"
              /\ needs_conversion(audio_format)
        /\ (reader_task' = "running" /\ reader_task # "running") =>
              (reader_task = "none" /\ ffmpeg_process = "none")
        /\ ffmpeg_process # "none" => ffmpeg_process' # "none"
        /\ reader_task # "none" => reader_task' # "none"
        /\ pcm_buffer' # pcm_buffer /\ BufLen(pcm_buffer') > BufLen(pcm_buffer) =>
              IF needs_conversion(audio_format) THEN reads' = reads + 1 /\ frames' = frames
              ELSE frames' = frames + 1 /\ reads' = reads ]_vars

\* a converting session whose decoder has ended took a further frame and read output
C27_Witness ==
    /\ needs_conversion(audio_format)
    /\ ffmpeg_process = "exited"
    /\ frames = 2
    /\ reads >= 1
    /\ pc = "check"

\* the stream position up to which the windows 1..k have covered the audio
CoveredUpTo(k) ==
    LET ends == { windows[j][2] : j \in 1..k }
    IN  CHOOSE e \in ends : \A x \in ends : x <= e

\* C28: every window handed to the recognition engine, the forced final one included,
\* holds at least one byte that no earlier window held: windows start at or after the
\* start of their predecessor, so a window has a new byte exactly when it ends beyond
\* everything covered before it
C28_WindowHasNewAudio ==
    \A k \in 2..Len(windows) :
        /\ windows[k][1] >= windows[k-1][1]
        /\ windows[k][2] > CoveredUpTo(k - 1)

\* encodings and source rates of format descriptors (0: no rate given)
DescriptorEncodings == SUPPORTED_STREAM_FORMATS \cup RAW_STREAM_FORMATS \cup {"S16LE", "mp4"}
DescriptorRates == {0, 8000, SAMPLE_RATE, 44100}

\* the handler is past the decoder start of a session
SessionServing ==
    session /\ pc \in {"receive", "feed", "check", "transcribing", "deliver", "grace",
                       "send_final"}

\* C29: needs_conversion() of a format descriptor is false exactly for the encoding
\* s16le at the rate 16000 (the rate a descriptor built without one carries), for every
\* encoding and rate; and a session being served has no decoder exactly when its
\* descriptor is s16le at 16000
C29_ConversionIffNotCanonical ==
    /\ \A f \in DescriptorEncodings, r \in DescriptorRates :
          needs_conversion(AudioFormat(f, r))
              <=> ~(f = "s16le" /\ (r = SAMPLE_RATE \/ r = 0))
    /\ SessionServing =>
          ((ffmpeg_process = "none")
              <=> (audio_format.format_type = "s16le" /\ audio_format.sample_rate = 16000))

\* a session of canonical encoding at a non-canonical rate is served through a decoder
C29_Witness ==
    /\ pc = "check"
    /\ audio_format.format_type = "s16le"
    /\ audio_format.sample_rate = 8000
    /\ ffmpeg_process = "running"
    /\ reads >= 1

\* first frames that ask for the container by its alias and are otherwise acceptable
AliasHandshakes ==
    { m \in HandshakeMessages :
        /\ m.json = "object" /\ m.type = "start" /\ m.format = "mp4"
        /\ m.rate \in {Absent} \cup NumeralRates
        /\ m.model_size \in {Absent, "Tiny"} }

\* C30: a handshake with the format alias mp4 is accepted with the descriptor m4a (the
\* alias is replaced before the format is validated), the decoder input chosen for
\* that descriptor is the mp4 demuxer, and no session ever carries the alias itself
\* or a descriptor the decoder selection rejects
C30_AliasNormalized ==
    /\ \A m \in AliasHandshakes :
          LET parsed == parse_handshake(m, Absent)
          IN  /\ parsed.raises = "none"
              /\ parsed.audio_format.format_type = "m4a"
              /\ ffmpeg_input_format(parsed.audio_format) = "mp4"
    /\ audio_format.format_type # "mp4"
    /\ ffmpeg_process # "none" =>
          (needs_conversion(audio_format) /\ ffmpeg_input_format(audio_format) # "ValueError")

\* a session opened with the alias runs its decoder under the canonical tag
C30_Witness ==
    /\ audio_format.format_type = "m4a"
    /\ ffmpeg_process = "running"
    /\ reads >= 1
    /\ pc = "receive"

\* C31: a recognized text that is missing, empty or only whitespace gives no result,
\* any other text gives a delta whose "append" is the stripped text; so the delta a
\* session holds for sending, and the last delta it has sent, carry a non-empty text
\* without surrounding whitespace
C31_DeltaTextNonEmpty ==
    /\ \A text \in RecognizedTexts :
          LET built == transcribe_chunk(text)
              blank == (text = Null \/ strip(text) = "")
          IN  /\ blank => (built.type = "none")
              /\ ~blank => (built.type = "delta" /\ built.append = strip(text))
    /\ (result = "delta" \/ DeltasSent > 0) =>
          (delta_append # "" /\ strip(delta_append) = delta_append)
    /\ returned = 0 => (DeltasSent = 0 /\ result = "none")

\* after a delta was sent, a second recognition returned blank text: nothing to send
C31_Witness ==
    /\ pc = "deliver"
    /\ result = "none"
    /\ returned = 2
    /\ DeltasSent = 1
    /\ delta_append = "hi"

\* pcm_buffer[i], as the value of the sample the byte belongs to (0 <= i < len)
RECURSIVE ValueAt(_, _)
ValueAt(b, i) == IF i < b[1].n THEN b[1].v ELSE ValueAt(Tail(b), i - b[1].n)

\* the first and the last byte position of every run of a buffer
RECURSIVE RunEdges(_, _)
RunEdges(b, at) ==
    IF b = <<>> THEN {}
    ELSE {at, at + b[1].n - 1} \cup RunEdges(Tail(b), at + b[1].n)

\* C32: trim_buffer deletes exactly the max(0, transcribed_len - 2*chunk_bytes) oldest
\* bytes and lowers the offset by as many: the un-transcribed length is the same before
\* and after, every byte from transcribed_len - min(transcribed_len, 2*chunk_bytes) on
\* is where it was relative to the offset, and with transcribed_len <= 2*chunk_bytes
\* buffer and offset are returned as they are. Stated for the buffer and offset of
\* every state in which process_audio_chunk is about to call it
C32_TrimKeepsRecentAudio ==
    pc = "transcribing" =>
        LET after == trim_buffer(pcm_buffer, transcribed_len)
            first_kept == transcribed_len - Min(transcribed_len, 2 * chunk_bytes)
        IN  /\ BufLen(after.pcm_buffer) = BufLen(pcm_buffer) - first_kept
            /\ after.transcribed_len = transcribed_len - first_kept
            /\ BufLen(after.pcm_buffer) - after.transcribed_len
                  = BufLen(pcm_buffer) - transcribed_len
            /\ \A i \in RunEdges(after.pcm_buffer, 0) :
                  ValueAt(after.pcm_buffer, i) = ValueAt(pcm_buffer, i + first_kept)
            /\ \A i \in RunEdges(pcm_buffer, 0) :
                  i >= first_kept => ValueAt(after.pcm_buffer, i - first_kept)
                                        = ValueAt(pcm_buffer, i)
            /\ transcribed_len <= 2 * chunk_bytes =>
                  (after.pcm_buffer = pcm_buffer /\ after.transcribed_len = transcribed_len)

\* a trim is about to delete bytes from a buffer that holds silence and sound
C32_Witness ==
    /\ pc = "transcribing"
    /\ transcribed_len > 2 * chunk_bytes
    /\ Len(pcm_buffer) >= 2
    /\ BufLen(pcm_buffer) > transcribed_len

\* the stream position up to which the audio has been handed to the recognition engine
\* or looked at by the silence gate of the last cycle
HandledUpTo ==
    LET submitted == IF windows = <<>> THEN 0 ELSE CoveredUpTo(Len(windows))
        gated     == IF last_cycle = "silent"
                     THEN trimmed + transcribed_len
                          + Min(chunk_bytes, BufLen(pcm_buffer) - transcribed_len)
                     ELSE 0
    IN  Max(submitted, gated)

\* C33: when the final message of a graceful stop has been sent in direct PCM mode
\* (where the buffer holds at the final what it held at the stop frame), every byte of
\* the buffer lies in a window that was submitted or in the window the silence gate
\* rejected: nothing behind the last window was left unexamined
C33_StopDropsNoAudio ==
    (FinalsSent = 1 /\ ~needs_conversion(audio_format)) =>
        trimmed + BufLen(pcm_buffer) <= HandledUpTo

\* C34: whatever the byte lengths of the binary frames in direct PCM mode, no cycle,
\* ordinary or forced, ends in the failure of the sample conversion: the session is
\* never taken to its internal-error path by a window that is not a whole number of
\* 16-bit samples
C34_ExtractionNeverFails ==
    ~needs_conversion(audio_format) => (last_cycle # "error" /\ fault # "conversion")

\* C35: a first frame that is not an acceptable start command, whatever is wrong with
\* it, never takes the handler to its internal-error path and is answered with the
\* protocol-error close code once the handler has finished
C35_BadFirstFrameProtocolError ==
    (pc # "handshake" /\ fault \in {"handshake", "handshake_crash"}) =>
        /\ pc # "error"
        /\ close_code # CLOSE_INTERNAL_ERROR
        /\ pc = "closed" => close_code = CLOSE_PROTOCOL_ERROR

\* C36: once end-of-input was signalled to the decoder, feed_to_ffmpeg neither starts
\* a decoder nor writes, whatever became of the process; the handler is then never in
\* the write-and-drain of a feed and no feed has failed; and the forced final cycle of
\* a converting session always comes after the signal, with a decoder already there
C36_FeedAfterCloseSilent ==
    /\ \A process \in {"running", "exited"} :
          LET fed == feed_to_ffmpeg(process, TRUE)
          IN  ~fed.starts /\ ~fed.writes
    /\ stdin_closing => (pc # "feed" /\ fault # "feed")
    /\ (needs_conversion(audio_format) /\ (pc = "grace" \/ forced)) =>
          (stdin_closing /\ ffmpeg_process # "none" /\ reader_task # "none")

\* the forced final cycle of a converting session whose decoder had already ended
C36_Witness ==
    /\ forced
    /\ pc = "check"
    /\ needs_conversion(audio_format)
    /\ stdin_closing
    /\ ffmpeg_process = "exited"
    /\ written

\* C37: after the background reader has ended by itself in a session that is being
\* served, the decoder side never ends the session: no later step is a failing feed
\* that takes the handler to its internal-error path, so frames keep being accepted
\* until the client stops or disconnects
C37_ReaderEndNotFatal ==
    [][ (reader_task = "done" /\ fault = "none" /\ Phase = "Streaming")
            => fault' # "feed" ]_vars

\* C38: the start of the decode pipeline is refused, before anything is spawned, for
\* an unsupported encoding and for a raw PCM encoding whose source rate was not
\* declared: a session opened with raw PCM and no rate that needs the decoder never
\* has a decoder process or a reader task (the first frames of the model name f32le
\* only without a rate), and a refused start leaves neither behind
C38_StartRefusedWithoutRate ==
    /\ audio_format.format_type \in RawUndeclared =>
          (ffmpeg_process = "none" /\ reader_task = "none")
    /\ fault = "decoder_start" => (ffmpeg_process = "none" /\ reader_task = "none")

\* the classifier's outcomes for n frames of which the first s are speech and the
\* next f make the classifier raise
FrameVerdicts(s, f, n) ==
    [i \in 1..n |-> IF i <= s THEN "speech" ELSE IF i <= s + f THEN "raises" ELSE "silence"]

\* C39: whenever a cycle is about to decide, get_vad_speech_ratio on the buffer is
\* the number of speech frames over the number of complete 20 ms frames in the
\* trailing 400 ms, whatever the classifier does with each frame: it lies within
\* [0,1], is 0 when no complete frame exists (empty buffer, tail shorter than one
\* frame), a partial trailing frame is not counted, a frame on which the classifier
\* raises is counted as evaluated and not as speech, and nothing is raised
C39_VadRatioOverCompleteFrames ==
    pc = "check" =>
        LET buf_len  == BufLen(pcm_buffer)
            tail     == Min(buf_len, (VAD_WINDOW_MS * bytes_per_sec) \div 1000)
            complete == tail \div (((SAMPLE_RATE * VAD_FRAME_MS) \div 1000) * SAMPLE_WIDTH)
        IN  /\ vad_frames(buf_len) = complete
            /\ \A s \in 0..complete : \A f \in 0..Min(1, complete - s) :
                  LET counted == count_speech_frames(FrameVerdicts(s, f, vad_frames(buf_len)))
                      ratio   == get_vad_speech_ratio(buf_len, counted.speech)
                  IN  /\ ~counted.raises
                      /\ counted.total = complete
                      /\ counted.speech = s
                      /\ ratio.den > 0
                      /\ 0 <= ratio.num
                      /\ ratio.num <= ratio.den
                      /\ complete = 0 => ratio.num = 0
                      /\ complete > 0 => (ratio.num = s /\ ratio.den = complete)

\* a cycle about to decide on a buffer whose trailing window ends in a partial frame
C39_Witness ==
    /\ pc = "check"
    /\ BufLen(pcm_buffer) < (VAD_WINDOW_MS * bytes_per_sec) \div 1000
    /\ vad_frames(BufLen(pcm_buffer)) > 0
    /\ BufLen(pcm_buffer) > vad_frames(BufLen(pcm_buffer))
                               * (((SAMPLE_RATE * VAD_FRAME_MS) \div 1000) * SAMPLE_WIDTH)

====
